---- MODULE Spec2Model ----
(***************************************************************************)
(* Tuple capability implementations of diesel, as generated by the        *)
(* tuple_impls! macro of src/diesel/src/types/impls/tuples.rs.  A tuple   *)
(* is a sequence of elements; the macro's repetition $( ... )+ over the   *)
(* positional indices 0..N-1 is modelled as a left-to-right fold over the *)
(* sequence.  Each trait method is one action: the caller hands in a      *)
(* tuple and a row cursor or an output builder, the method runs to its    *)
(* return, and the caller drops the values again (Return).                *)
(***************************************************************************)
EXTENDS Integers, Sequences, FiniteSets, TLC

VARIABLES
    op,      \* the method that ran last ("idle" before any call)
    self,    \* the tuple (or tuple type) the method was applied to
    arg,     \* tuple_append's `next` argument
    row,     \* the cells of the row handed to build_from_row
    start,   \* the row cursor's position when the method was entered
    cursor,  \* the row cursor's position when the method returned
    out0,    \* the builder's content when the method was entered
    out,     \* the builder's content when the method returned
    ret,     \* the method's return value
    calls,   \* the element build_from_row calls made, as index paths
    threads  \* the calls in progress when two callers run side by side

vars == <<op, self, arg, row, start, cursor, out0, out, ret, calls, threads>>

(***************************************************************************)
(* Bounds.                                                                 *)
(***************************************************************************)
MaxArity == 3        \* arities 1..MaxArity of the outer tuple
MaxStart == 1        \* cells already consumed before the tuple is decoded
MaxUsedArity == 53   \* arities 1..MaxUsedArity a program may try to use

(***************************************************************************)
(* Values and results.                                                     *)
(***************************************************************************)
Unit == [t |-> "unit"]
NoneVal == [t |-> "none"]
IntVal(n) == [t |-> "int", n |-> n]
SomeVal(x) == [t |-> "some", x |-> x]
TupleVal(es) == [t |-> "tuple", es |-> es]

Ok(v) == [ok |-> TRUE, val |-> v, err |-> ""]
Err(e) == [ok |-> FALSE, val |-> Unit, err |-> e]

(***************************************************************************)
(* Row cursor (collaborator, row::Row).                                    *)
(***************************************************************************)
Cells == {"NULL", "1", "x"}

\* Row::next_is_null(count): the next count cells are all NULL
next_is_null(cells, pos, count) ==
    \A i \in (pos + 1)..(pos + count) : i <= Len(cells) => cells[i] = "NULL"

\* Row::advance(count)
advance(pos, count) == pos + count

(***************************************************************************)
(* Element types a tuple is decoded into.                                  *)
(***************************************************************************)
I32 == [k |-> "int"]
OptionI32 == [k |-> "optint"]
Tuple(es) == [k |-> "tuple", elems |-> es]
OptTuple(es) == [k |-> "opttuple", elems |-> es]

\* what a decode returns: the result, the cursor and the call log
Decoded(r, pos, log) == [ret |-> r, pos |-> pos, calls |-> log]

\* FromSql of a non-null integer column: NULL and malformed cells are errors
I32_build_from_row(cells, pos, log) ==
    LET c == cells[pos + 1]
    IN  CASE c = "NULL" -> Decoded(Err("UnexpectedNullError"), pos + 1, log)
          [] c = "1"    -> Decoded(Ok(IntVal(1)), pos + 1, log)
          [] c = "2"    -> Decoded(Ok(IntVal(2)), pos + 1, log)
          [] OTHER      -> Decoded(Err("InvalidValue"), pos + 1, log)

\* Option<T> of a nullable column: NULL is None, anything else is T's decode
OptionI32_build_from_row(cells, pos, log) ==
    IF next_is_null(cells, pos, 1)
    THEN Decoded(Ok(NoneVal), advance(pos, 1), log)
    ELSE LET r == I32_build_from_row(cells, pos, log)
         IN  IF r.ret.ok THEN Decoded(Ok(SomeVal(r.ret.val)), r.pos, r.calls) ELSE r

RECURSIVE fields_needed(_)
RECURSIVE Tuple_fields_needed(_)
RECURSIVE Option_fields_needed(_)
RECURSIVE SumFieldsFrom(_, _)

\* $($T::fields_needed() +)+ 0, from element idx on
SumFieldsFrom(T, idx) ==
    IF idx = Len(T) THEN 0
    ELSE fields_needed(T[idx + 1]) + SumFieldsFrom(T, idx + 1)

\* a slip: the number of elements instead of the sum of their field counts
Tuple_fields_needed_Arity(T) == Len(T)

\* FromSqlRow<(ST..), DB> for (T..)::fields_needed
Tuple_fields_needed(T) == SumFieldsFrom(T, 0)

\* FromSqlRow<Nullable<(ST..)>, DB> for Option<(T..)>::fields_needed
Option_fields_needed(T) == SumFieldsFrom(T, 0)

\* $T::fields_needed() of one element
fields_needed(ty) ==
    CASE ty.k = "int"      -> 1
      [] ty.k = "optint"   -> 1
      [] ty.k = "tuple"    -> Tuple_fields_needed(ty.elems)
      [] ty.k = "opttuple" -> Option_fields_needed(ty.elems)

RECURSIVE build_from_row(_, _, _, _, _)
RECURSIVE Tuple_build_from_row(_, _, _, _, _)
RECURSIVE Option_build_from_row(_, _, _, _, _)
RECURSIVE BuildElems(_, _, _, _, _, _, _)

\* a slip: an element's error is kept, but the elements after it are still
\* decoded before it is returned
RECURSIVE BuildElems_Continue(_, _, _, _, _, _, _)
BuildElems_Continue(T, idx, cells, pos, log, path, acc) ==
    IF idx = Len(T) THEN Decoded(Ok(TupleVal(acc)), pos, log)
    ELSE LET p == Append(path, idx)
             r == build_from_row(T[idx + 1], cells, pos, Append(log, p), p)
         IN  IF ~r.ret.ok
             THEN LET rest == BuildElems_Continue(T, idx + 1, cells, r.pos, r.calls, path, acc)
                  IN  Decoded(r.ret, rest.pos, rest.calls)
             ELSE BuildElems_Continue(T, idx + 1, cells, r.pos, r.calls, path,
                                      Append(acc, r.ret.val))

\* ($(try!($T::build_from_row(row)),)+), from element idx on: every element
\* is decoded at the cursor the one before it left, and try! returns the
\* first error
BuildElems(T, idx, cells, pos, log, path, acc) ==
    IF idx = Len(T) THEN Decoded(Ok(TupleVal(acc)), pos, log)
    ELSE LET p == Append(path, idx)
             r == build_from_row(T[idx + 1], cells, pos, Append(log, p), p)
         IN  IF ~r.ret.ok THEN r
             ELSE BuildElems(T, idx + 1, cells, r.pos, r.calls, path,
                             Append(acc, r.ret.val))

\* a slip: the decoded elements are put into the tuple last first
Tuple_build_from_row_Reversed(T, cells, pos, log, path) ==
    LET r == BuildElems(T, 0, cells, pos, log, path, <<>>)
        n == Len(T)
    IN  IF r.ret.ok
        THEN Decoded(Ok(TupleVal([i \in 1..n |-> r.ret.val.es[n + 1 - i]])), r.pos, r.calls)
        ELSE r

\* a slip: the plain tuple checks for an all-NULL group as the wrapper does
Tuple_build_from_row_NullCheck(T, cells, pos, log, path) ==
    LET n == Tuple_fields_needed(T)
    IN  IF next_is_null(cells, pos, n)
        THEN Decoded(Ok(NoneVal), advance(pos, n), log)
        ELSE BuildElems(T, 0, cells, pos, log, path, <<>>)

\* FromSqlRow<(ST..), DB> for (T..)::build_from_row
Tuple_build_from_row(T, cells, pos, log, path) ==
    BuildElems(T, 0, cells, pos, log, path, <<>>)

\* a slip: the cursor is left where it was when the group is absent
Option_build_from_row_NoAdvance(T, cells, pos, log, path) ==
    LET n == Option_fields_needed(T)
    IN  IF next_is_null(cells, pos, n)
        THEN Decoded(Ok(NoneVal), pos, log)
        ELSE LET r == BuildElems(T, 0, cells, pos, log, path, <<>>)
             IN  IF r.ret.ok THEN Decoded(Ok(SomeVal(r.ret.val)), r.pos, r.calls)
                 ELSE r

\* a slip: one NULL position is enough to make the group absent
Option_build_from_row_AnyNull(T, cells, pos, log, path) ==
    LET n == Option_fields_needed(T)
    IN  IF \E i \in (pos + 1)..(pos + n) : cells[i] = "NULL"
        THEN Decoded(Ok(NoneVal), advance(pos, n), log)
        ELSE LET r == BuildElems(T, 0, cells, pos, log, path, <<>>)
             IN  IF r.ret.ok THEN Decoded(Ok(SomeVal(r.ret.val)), r.pos, r.calls)
                 ELSE r

\* a slip: the absent group is skipped by its arity, one position an element
Option_build_from_row_AdvanceArity(T, cells, pos, log, path) ==
    LET n == Option_fields_needed(T)
    IN  IF next_is_null(cells, pos, n)
        THEN Decoded(Ok(NoneVal), advance(pos, Len(T)), log)
        ELSE LET r == BuildElems(T, 0, cells, pos, log, path, <<>>)
             IN  IF r.ret.ok THEN Decoded(Ok(SomeVal(r.ret.val)), r.pos, r.calls)
                 ELSE r

\* FromSqlRow<Nullable<(ST..)>, DB> for Option<(T..)>::build_from_row
Option_build_from_row(T, cells, pos, log, path) ==
    LET n == Option_fields_needed(T)
    IN  IF next_is_null(cells, pos, n)
        THEN Decoded(Ok(NoneVal), advance(pos, n), log)
        ELSE LET r == BuildElems(T, 0, cells, pos, log, path, <<>>)
             IN  IF r.ret.ok THEN Decoded(Ok(SomeVal(r.ret.val)), r.pos, r.calls)
                 ELSE r

\* $T::build_from_row(row) of one element
build_from_row(ty, cells, pos, log, path) ==
    CASE ty.k = "int"      -> I32_build_from_row(cells, pos, log)
      [] ty.k = "optint"   -> OptionI32_build_from_row(cells, pos, log)
      [] ty.k = "tuple"    -> Tuple_build_from_row(ty.elems, cells, pos, log, path)
      [] ty.k = "opttuple" -> Option_build_from_row(ty.elems, cells, pos, log, path)

(***************************************************************************)
(* Output builder (collaborator, query_builder::AstPass / QueryBuilder     *)
(* while the SQL text is produced): the text pushed so far, as tokens.     *)
(***************************************************************************)
Sql(s) == [k |-> "sql", s |-> s]
Ident(name) == [k |-> "ident", s |-> name]

\* what a rendering method returns: the result and the builder
Walked(r, o) == [ret |-> r, out |-> o]

\* out.push_sql(sql)
push_sql(o, sql) == Append(o, Sql(sql))

\* a column name the builder refuses
BadName == "!"

\* out.push_identifier(name): the quoted identifier, or the builder's error
push_identifier(o, name) ==
    IF name = BadName THEN Walked(Err("QueryBuilderError"), o)
    ELSE Walked(Ok(Unit), Append(o, Ident(name)))

(***************************************************************************)
(* QueryFragment for tuples.                                               *)
(***************************************************************************)
\* a leaf fragment pushes its text and then reports success or failure
Frag(s) == [k |-> "frag", s |-> s, fails |-> FALSE]
FailFrag(s) == [k |-> "frag", s |-> s, fails |-> TRUE]
TupleFrag(es) == [k |-> "tuple", elems |-> es]

Frag_walk_ast(f, o) ==
    Walked(IF f.fails THEN Err("QueryBuilderError") ELSE Ok(Unit), push_sql(o, f.s))

RECURSIVE walk_ast(_, _)
RECURSIVE QueryFragment_walk_ast(_, _)
RECURSIVE WalkElems(_, _, _)

\* $( if $idx != 0 { out.push_sql(", "); } self.$idx.walk_ast(out.reborrow())?; )+
\* from element idx on
WalkElems(t, idx, o) ==
    IF idx = Len(t) THEN Walked(Ok(Unit), o)
    ELSE LET o1 == IF idx # 0 THEN push_sql(o, ", ") ELSE o
             r == walk_ast(t[idx + 1], o1)
         IN  IF ~r.ret.ok THEN r ELSE WalkElems(t, idx + 1, r.out)

\* a slip: an element's error is dropped and the walk goes on
RECURSIVE WalkElemsIgnoring(_, _, _)
WalkElemsIgnoring(t, idx, o) ==
    IF idx = Len(t) THEN Walked(Ok(Unit), o)
    ELSE LET o1 == IF idx # 0 THEN push_sql(o, ", ") ELSE o
             r == walk_ast(t[idx + 1], o1)
         IN  WalkElemsIgnoring(t, idx + 1, r.out)

QueryFragment_walk_ast_IgnoreErr(t, o) == WalkElemsIgnoring(t, 0, o)

\* a slip: the separator follows every element
QueryFragment_walk_ast_Trailing(t, o) ==
    LET r == WalkElems(t, 0, o)
    IN  IF r.ret.ok THEN Walked(r.ret, push_sql(r.out, ", ")) ELSE r

\* a slip: the body is the pair's, written out by hand: one separator, after
\* element 0, whatever the arity
RECURSIVE WalkElemsPair(_, _, _)
WalkElemsPair(t, idx, o) ==
    IF idx = Len(t) THEN Walked(Ok(Unit), o)
    ELSE LET o1 == IF idx = 1 THEN push_sql(o, ", ") ELSE o
             r == walk_ast(t[idx + 1], o1)
         IN  IF ~r.ret.ok THEN r ELSE WalkElemsPair(t, idx + 1, r.out)

QueryFragment_walk_ast_PairOnly(t, o) == WalkElemsPair(t, 0, o)

\* QueryFragment<DB> for ($($T,)+)::walk_ast
QueryFragment_walk_ast(t, o) == WalkElems(t, 0, o)

\* self.$idx.walk_ast(out.reborrow()) of one element
walk_ast(e, o) ==
    CASE e.k = "frag"  -> Frag_walk_ast(e, o)
      [] e.k = "tuple" -> QueryFragment_walk_ast(e.elems, o)

(***************************************************************************)
(* InsertValues for tuples of ColumnInsertValue.                           *)
(***************************************************************************)
Expression(col, value) == [k |-> "Expression", col |-> col, value |-> value]
Default(col) == [k |-> "Default", col |-> col, value |-> Unit]

RECURSIVE ColumnNamesFrom(_, _, _)
RECURSIVE InsertWalkFrom(_, _, _)
RECURSIVE SqliteColumnNamesFrom(_, _, _, _)
RECURSIVE SqliteWalkFrom(_, _, _, _)

\* $( if $idx != 0 { out.push_sql(", "); } try!(out.push_identifier($T::name())); )+
ColumnNamesFrom(t, idx, o) ==
    IF idx = Len(t) THEN Walked(Ok(Unit), o)
    ELSE LET o1 == IF idx # 0 THEN push_sql(o, ", ") ELSE o
             r == push_identifier(o1, t[idx + 1].col)
         IN  IF ~r.ret.ok THEN r ELSE ColumnNamesFrom(t, idx + 1, r.out)

\* InsertValues<DB: SupportsDefaultKeyword>::column_names
InsertValues_column_names(t, o) == ColumnNamesFrom(t, 0, o)

\* $( if $idx != 0 { out.push_sql(", "); }
\*    if let ColumnInsertValue::Expression(_, ref value) = self.$idx {
\*        value.walk_ast(out.reborrow())?; } else { out.push_sql("DEFAULT"); } )+
InsertWalkFrom(t, idx, o) ==
    IF idx = Len(t) THEN Walked(Ok(Unit), o)
    ELSE LET o1 == IF idx # 0 THEN push_sql(o, ", ") ELSE o
             e == t[idx + 1]
             r == IF e.k = "Expression" THEN walk_ast(e.value, o1)
                  ELSE Walked(Ok(Unit), push_sql(o1, "DEFAULT"))
         IN  IF ~r.ret.ok THEN r ELSE InsertWalkFrom(t, idx + 1, r.out)

\* a slip: a default-marked element is left out of the value list
InsertValues_walk_ast_SkipDefault(t, o) ==
    LET r == InsertWalkFrom(SelectSeq(t, LAMBDA e : e.k = "Expression"), 0,
                            push_sql(o, "("))
    IN  IF ~r.ret.ok THEN r ELSE Walked(Ok(Unit), push_sql(r.out, ")"))

\* InsertValues<DB: SupportsDefaultKeyword>::walk_ast
InsertValues_walk_ast(t, o) ==
    LET r == InsertWalkFrom(t, 0, push_sql(o, "("))
    IN  IF ~r.ret.ok THEN r ELSE Walked(Ok(Unit), push_sql(r.out, ")"))

\* $( if let ColumnInsertValue::Expression(..) = self.$idx {
\*        if columns_present { out.push_sql(", "); }
\*        try!(out.push_identifier($T::name())); columns_present = true; } )+
SqliteColumnNamesFrom(t, idx, o, columns_present) ==
    IF idx = Len(t) THEN Walked(Ok(Unit), o)
    ELSE LET e == t[idx + 1]
         IN  IF e.k = "Expression"
             THEN LET o1 == IF columns_present THEN push_sql(o, ", ") ELSE o
                      r == push_identifier(o1, e.col)
                  IN  IF ~r.ret.ok THEN r
                      ELSE SqliteColumnNamesFrom(t, idx + 1, r.out, TRUE)
             ELSE SqliteColumnNamesFrom(t, idx + 1, o, columns_present)

\* a slip: columns_present is never set, so no separator is ever pushed
RECURSIVE SqliteColumnNamesNeverPresentFrom(_, _, _)
SqliteColumnNamesNeverPresentFrom(t, idx, o) ==
    IF idx = Len(t) THEN Walked(Ok(Unit), o)
    ELSE LET e == t[idx + 1]
         IN  IF e.k = "Expression"
             THEN LET r == push_identifier(o, e.col)
                  IN  IF ~r.ret.ok THEN r
                      ELSE SqliteColumnNamesNeverPresentFrom(t, idx + 1, r.out)
             ELSE SqliteColumnNamesNeverPresentFrom(t, idx + 1, o)

Sqlite_column_names_NeverPresent(t, o) == SqliteColumnNamesNeverPresentFrom(t, 0, o)

\* a slip: the default-marked columns are still named
Sqlite_column_names_All(t, o) == ColumnNamesFrom(t, 0, o)

\* InsertValues<Sqlite>::column_names
Sqlite_column_names(t, o) == SqliteColumnNamesFrom(t, 0, o, FALSE)

\* $( if let ColumnInsertValue::Expression(_, ref value) = self.$idx {
\*        if columns_present { out.push_sql(", "); }
\*        value.walk_ast(out.reborrow())?; columns_present = true; } )+
SqliteWalkFrom(t, idx, o, columns_present) ==
    IF idx = Len(t) THEN Walked(Ok(Unit), o)
    ELSE LET e == t[idx + 1]
         IN  IF e.k = "Expression"
             THEN LET o1 == IF columns_present THEN push_sql(o, ", ") ELSE o
                      r == walk_ast(e.value, o1)
                  IN  IF ~r.ret.ok THEN r
                      ELSE SqliteWalkFrom(t, idx + 1, r.out, TRUE)
             ELSE SqliteWalkFrom(t, idx + 1, o, columns_present)

\* a slip: the separator is decided by the position, as in the standard policy
RECURSIVE SqliteWalkByIndexFrom(_, _, _)
SqliteWalkByIndexFrom(t, idx, o) ==
    IF idx = Len(t) THEN Walked(Ok(Unit), o)
    ELSE LET e == t[idx + 1]
         IN  IF e.k = "Expression"
             THEN LET o1 == IF idx # 0 THEN push_sql(o, ", ") ELSE o
                      r == walk_ast(e.value, o1)
                  IN  IF ~r.ret.ok THEN r
                      ELSE SqliteWalkByIndexFrom(t, idx + 1, r.out)
             ELSE SqliteWalkByIndexFrom(t, idx + 1, o)

Sqlite_walk_ast_ByIndex(t, o) ==
    LET r == SqliteWalkByIndexFrom(t, 0, push_sql(o, "("))
    IN  IF ~r.ret.ok THEN r ELSE Walked(Ok(Unit), push_sql(r.out, ")"))

\* a slip: the parentheses are pushed with the first value that is present,
\* so a tuple of default-marked elements pushes nothing
Sqlite_walk_ast_NoEmptyParens(t, o) ==
    IF \A i \in 1..Len(t) : t[i].k = "Default" THEN Walked(Ok(Unit), o)
    ELSE LET r == SqliteWalkFrom(t, 0, push_sql(o, "("), FALSE)
         IN  IF ~r.ret.ok THEN r ELSE Walked(Ok(Unit), push_sql(r.out, ")"))

\* InsertValues<Sqlite>::walk_ast
Sqlite_walk_ast(t, o) ==
    LET r == SqliteWalkFrom(t, 0, push_sql(o, "("), FALSE)
    IN  IF ~r.ret.ok THEN r ELSE Walked(Ok(Unit), push_sql(r.out, ")"))

(***************************************************************************)
(* Changeset for tuples.                                                   *)
(***************************************************************************)
\* a leaf change reports its no-op flag and, when walked, pushes its
\* assignment and then reports success or failure
Change(noop, s) == [k |-> "change", noop |-> noop, s |-> s, fails |-> FALSE]
FailChange(s) == [k |-> "change", noop |-> FALSE, s |-> s, fails |-> TRUE]
TupleChange(es) == [k |-> "tuple", elems |-> es]

RECURSIVE is_noop(_)
RECURSIVE Changeset_is_noop(_)
RECURSIVE IsNoopFrom(_, _)
RECURSIVE change_walk_ast(_, _)
RECURSIVE Changeset_walk_ast(_, _)
RECURSIVE ChangesetWalkFrom(_, _, _, _)

\* $(self.$idx.is_noop() &&)+ true, from element idx on
IsNoopFrom(t, idx) ==
    IF idx = Len(t) THEN TRUE
    ELSE IF is_noop(t[idx + 1]) THEN IsNoopFrom(t, idx + 1) ELSE FALSE

\* a slip: one no-op element is enough
Changeset_is_noop_Any(t) == \E i \in 1..Len(t) : is_noop(t[i])

\* Changeset<DB> for ($($T,)+)::is_noop
Changeset_is_noop(t) == IsNoopFrom(t, 0)

\* self.$idx.is_noop() of one element
is_noop(e) ==
    CASE e.k = "change" -> e.noop
      [] e.k = "tuple"  -> Changeset_is_noop(e.elems)

\* $( let noop_element = self.$idx.is_noop();
\*    if !noop_element { if needs_comma { out.push_sql(", "); }
\*        self.$idx.walk_ast(out.reborrow())?; needs_comma = true; } )+
ChangesetWalkFrom(t, idx, o, needs_comma) ==
    IF idx = Len(t) THEN Walked(Ok(Unit), o)
    ELSE LET noop_element == is_noop(t[idx + 1])
         IN  IF ~noop_element
             THEN LET o1 == IF needs_comma THEN push_sql(o, ", ") ELSE o
                      r == change_walk_ast(t[idx + 1], o1)
                  IN  IF ~r.ret.ok THEN r
                      ELSE ChangesetWalkFrom(t, idx + 1, r.out, TRUE)
             ELSE ChangesetWalkFrom(t, idx + 1, o, needs_comma)

\* a slip: the separator is pushed once any element has been passed
RECURSIVE ChangesetWalkPassedFrom(_, _, _, _)
ChangesetWalkPassedFrom(t, idx, o, needs_comma) ==
    IF idx = Len(t) THEN Walked(Ok(Unit), o)
    ELSE LET noop_element == is_noop(t[idx + 1])
         IN  IF ~noop_element
             THEN LET o1 == IF needs_comma THEN push_sql(o, ", ") ELSE o
                      r == change_walk_ast(t[idx + 1], o1)
                  IN  IF ~r.ret.ok THEN r
                      ELSE ChangesetWalkPassedFrom(t, idx + 1, r.out, TRUE)
             ELSE ChangesetWalkPassedFrom(t, idx + 1, o, TRUE)

Changeset_walk_ast_Passed(t, o) == ChangesetWalkPassedFrom(t, 0, o, FALSE)

\* a slip: only a leaf is asked whether it is a no-op; an inner tuple is
\* always walked
RECURSIVE ChangesetWalkLeafNoopFrom(_, _, _, _)
ChangesetWalkLeafNoopFrom(t, idx, o, needs_comma) ==
    IF idx = Len(t) THEN Walked(Ok(Unit), o)
    ELSE LET noop_element == t[idx + 1].k = "change" /\ t[idx + 1].noop
         IN  IF ~noop_element
             THEN LET o1 == IF needs_comma THEN push_sql(o, ", ") ELSE o
                      r == change_walk_ast(t[idx + 1], o1)
                  IN  IF ~r.ret.ok THEN r
                      ELSE ChangesetWalkLeafNoopFrom(t, idx + 1, r.out, TRUE)
             ELSE ChangesetWalkLeafNoopFrom(t, idx + 1, o, needs_comma)

Changeset_walk_ast_LeafNoop(t, o) == ChangesetWalkLeafNoopFrom(t, 0, o, FALSE)

\* Changeset<DB> for ($($T,)+)::walk_ast
Changeset_walk_ast(t, o) == ChangesetWalkFrom(t, 0, o, FALSE)

\* self.$idx.walk_ast(out.reborrow()) of one element
change_walk_ast(e, o) ==
    CASE e.k = "change" ->
            Walked(IF e.fails THEN Err("QueryBuilderError") ELSE Ok(Unit), push_sql(o, e.s))
      [] e.k = "tuple"  -> Changeset_walk_ast(e.elems, o)

(***************************************************************************)
(* TupleAppend for tuples.                                                 *)
(***************************************************************************)
\* a slip: the new value is put first
tuple_append_Front(t, next) == <<next>> \o t

\* let ($($T,)+) = self; ($($T,)+ next)
tuple_append(t, next) ==
    [i \in 1..(Len(t) + 1) |-> IF i <= Len(t) THEN t[i] ELSE next]

(***************************************************************************)
(* QueryId for tuples.                                                     *)
(***************************************************************************)
\* an element of type ty holding the bound value v; the element types "A"
\* and "B" have a static query id, "D" has none
QElem(ty, v) == [k |-> "qid", ty |-> ty, v |-> v]
TupleQ(es) == [k |-> "tuple", elems |-> es]

\* an identity token: a type name, or the composite of the tokens in `of`
Token(id, of) == [id |-> id, of |-> of]

RECURSIVE has_static_query_id(_)
RECURSIVE Tuple_has_static_query_id(_)
RECURSIVE HasStaticFrom(_, _)
RECURSIVE QueryId(_)
RECURSIVE Tuple_QueryId(_)

\* $($T::has_static_query_id() &&)+ true, from element idx on
HasStaticFrom(t, idx) ==
    IF idx = Len(t) THEN TRUE
    ELSE IF has_static_query_id(t[idx + 1]) THEN HasStaticFrom(t, idx + 1) ELSE FALSE

\* a slip: one element with a static query id is enough
Tuple_has_static_query_id_Any(t) == \E i \in 1..Len(t) : has_static_query_id(t[i])

\* QueryId for ($($T,)+)::has_static_query_id
Tuple_has_static_query_id(t) == HasStaticFrom(t, 0)

\* $T::has_static_query_id() of one element
has_static_query_id(e) ==
    CASE e.k = "qid"   -> e.ty # "D"
      [] e.k = "tuple" -> Tuple_has_static_query_id(e.elems)

\* a slip: the token of the first element stands for the whole tuple
Tuple_QueryId_First(t) == Token("tuple", <<QueryId(t[1])>>)

\* type QueryId = ($($T::QueryId,)+)
Tuple_QueryId(t) == Token("tuple", [i \in 1..Len(t) |-> QueryId(t[i])])

\* $T::QueryId of one element: its type, whatever value is bound
QueryId(e) ==
    CASE e.k = "qid"   -> Token(IF e.ty = "D" THEN "()" ELSE e.ty, <<>>)
      [] e.k = "tuple" -> Tuple_QueryId(e.elems)

(***************************************************************************)
(* BelongsTo for tuples.                                                   *)
(***************************************************************************)
\* a child record: its foreign key value, if set, and its foreign key column
Child(fk, col) == [k |-> "child", fk |-> fk, col |-> col]
ColumnVal(name) == [t |-> "column", name |-> name]

\* A::foreign_key(&self) and A::foreign_key_column() of one element
Child_foreign_key(e) == e.fk
Child_foreign_key_column(e) == ColumnVal(e.col)

\* a slip: the last element is asked
Tuple_foreign_key_Last(t) == Child_foreign_key(t[Len(t)])

\* BelongsTo<Parent> for ($($T,)+)::foreign_key: self.0.foreign_key()
Tuple_foreign_key(t) == Child_foreign_key(t[1])

\* BelongsTo<Parent> for ($($T,)+)::foreign_key_column: A::foreign_key_column()
Tuple_foreign_key_column(t) == Child_foreign_key_column(t[1])

(***************************************************************************)
(* HasSqlType for tuples.                                                  *)
(***************************************************************************)
SqlTy(name) == [k |-> "sqltype", name |-> name]
TupleTy(es) == [k |-> "tuple", elems |-> es]

\* a call that does not return: the panic and its message
Panic(msg) == [panic |-> msg]

\* DB::TypeMetadata of a column type under a lookup
Metadata(name, lookup) == [t |-> "meta", name |-> name, lookup |-> lookup]

RECURSIVE row_metadata(_, _, _)
RECURSIVE Tuple_row_metadata(_, _, _)
RECURSIVE RowMetadataFrom(_, _, _, _)

\* a slip: the first element's metadata stands for the tuple
Tuple_metadata_First(T, lookup) ==
    Ok(Metadata(IF T[1].k = "sqltype" THEN T[1].name ELSE "Record", lookup))

\* HasSqlType<($($T,)+)> for DB::metadata
Tuple_metadata(T, lookup) == Panic("Tuples should never implement ToSql directly")

\* $(<DB as HasSqlType<$T>>::row_metadata(out, lookup);)+, from element idx on
RowMetadataFrom(T, idx, o, lookup) ==
    IF idx = Len(T) THEN o
    ELSE RowMetadataFrom(T, idx + 1, row_metadata(T[idx + 1], o, lookup), lookup)

\* HasSqlType<($($T,)+)> for DB::row_metadata
Tuple_row_metadata(T, o, lookup) == RowMetadataFrom(T, 0, o, lookup)

\* <DB as HasSqlType<$T>>::row_metadata(out, lookup) of one element: a
\* column type pushes its own metadata
row_metadata(ty, o, lookup) ==
    CASE ty.k = "sqltype" -> Append(o, Metadata(ty.name, lookup))
      [] ty.k = "tuple"   -> Tuple_row_metadata(ty.elems, o, lookup)

(***************************************************************************)
(* The arities tuple_impls! is invoked for.                                *)
(***************************************************************************)
\* the first and the last arity block of the three invocations
StandardFirst == 1
StandardLast == 16
LargeFirst == 17
LargeLast == 26
HugeFirst == 27
HugeLast == 52

\* the cargo features a build tier turns on: huge-tables brings large-tables
Features(tier) ==
    CASE tier = "standard" -> {}
      [] tier = "large"    -> {"large-tables"}
      [] tier = "huge"     -> {"large-tables", "huge-tables"}

\* a slip: the cfg attributes are missing and every invocation is compiled
ImplArities_NoCfg(features) == StandardFirst..HugeLast

\* the arities with implementations: the invocation without a cfg, and the
\* invocations under #[cfg(feature = "large-tables")] and "huge-tables"
ImplArities(features) ==
    (StandardFirst..StandardLast)
        \cup (IF "large-tables" \in features THEN LargeFirst..LargeLast ELSE {})
        \cup (IF "huge-tables" \in features THEN HugeFirst..HugeLast ELSE {})

\* what the compiler answers to a use of a tuple without implementation
CompileError == [rustc |-> "E0277: the trait bound is not satisfied"]

(***************************************************************************)
(* Two calls side by side.  A call owns its tuple and its row or builder   *)
(* (row: &mut RowT, out: AstPass); its per-element steps are the ones of   *)
(* the repetitions above, taken one at a time.                             *)
(***************************************************************************)
\* a call that has not yet taken a step
Thread(kind, t, cells, s, o) ==
    [kind |-> kind, self |-> t, cells |-> cells, start |-> s, out0 |-> o,
     cursor |-> s, out |-> o, acc |-> <<>>, idx |-> 0,
     pc |-> IF kind = "Option::build_from_row" THEN "check" ELSE "elems",
     ret |-> Ok(Unit), steps |-> 0]

\* let fields_needed = ..; if row.next_is_null(fields_needed) {
\*     row.advance(fields_needed); Ok(None) } else { .. }
NullCheckStep(th) ==
    LET n == Option_fields_needed(th.self)
    IN  IF next_is_null(th.cells, th.cursor, n)
        THEN [th EXCEPT !.cursor = advance(th.cursor, n), !.ret = Ok(NoneVal),
                        !.pc = "done", !.steps = @ + 1]
        ELSE [th EXCEPT !.pc = "elems", !.steps = @ + 1]

\* one try!($T::build_from_row(row)); the tuple is built after the last one
DecodeElemStep(th) ==
    LET r == build_from_row(th.self[th.idx + 1], th.cells, th.cursor, <<>>, <<th.idx>>)
        acc == Append(th.acc, r.ret.val)
        last == th.idx + 1 = Len(th.self)
        whole == IF th.kind = "Option::build_from_row" THEN SomeVal(TupleVal(acc))
                 ELSE TupleVal(acc)
    IN  IF ~r.ret.ok
        THEN [th EXCEPT !.cursor = r.pos, !.ret = r.ret, !.pc = "done", !.steps = @ + 1]
        ELSE [th EXCEPT !.cursor = r.pos, !.acc = acc, !.idx = @ + 1, !.steps = @ + 1,
                        !.pc = IF last THEN "done" ELSE "elems",
                        !.ret = IF last THEN Ok(whole) ELSE @]

\* one if $idx != 0 { out.push_sql(", "); } self.$idx.walk_ast(out.reborrow())?;
RenderElemStep(th) ==
    LET o1 == IF th.idx # 0 THEN push_sql(th.out, ", ") ELSE th.out
        r == walk_ast(th.self[th.idx + 1], o1)
        last == th.idx + 1 = Len(th.self)
    IN  IF ~r.ret.ok
        THEN [th EXCEPT !.out = r.out, !.ret = r.ret, !.pc = "done", !.steps = @ + 1]
        ELSE [th EXCEPT !.out = r.out, !.idx = @ + 1, !.steps = @ + 1,
                        !.pc = IF last THEN "done" ELSE "elems"]

\* the next step of a call
StepOf(th) ==
    CASE th.pc = "check" -> NullCheckStep(th)
      [] th.pc = "elems" /\ th.kind = "QueryFragment::walk_ast" -> RenderElemStep(th)
      [] th.pc = "elems" /\ th.kind # "QueryFragment::walk_ast" -> DecodeElemStep(th)

\* a slip: the row cursor and the builder are one static shared by all calls
StepThread_Shared(ts, p) ==
    [q \in DOMAIN ts |->
        IF q = p THEN StepOf(ts[p])
        ELSE [ts[q] EXCEPT !.cursor = StepOf(ts[p]).cursor, !.out = StepOf(ts[p]).out]]

\* call p takes its next step: it reads and writes its own row and builder
StepThread(ts, p) == [ts EXCEPT ![p] = StepOf(ts[p])]

(***************************************************************************)
(* Inputs.                                                                 *)
(***************************************************************************)
RECURSIVE SeqSum(_)
SeqSum(s) == IF s = <<>> THEN 0 ELSE SeqSum(SubSeq(s, 1, Len(s) - 1)) + s[Len(s)]

RECURSIVE Concat(_)
Concat(ss) == IF ss = <<>> THEN <<>> ELSE Concat(SubSeq(ss, 1, Len(ss) - 1)) \o ss[Len(ss)]

\* the leaf columns of an element type, left to right
RECURSIVE Leaves(_)
Leaves(ty) ==
    IF ty.k \in {"int", "optint"} THEN <<ty>>
    ELSE Concat([i \in 1..Len(ty.elems) |-> Leaves(ty.elems[i])])

\* the number of row positions the tuple T spans
Width(T) == Len(Concat([i \in 1..Len(T) |-> Leaves(T[i])]))

SeqsUpTo(S, n) == UNION {[1..k -> S] : k \in 1..n}

\* element types of a decoded tuple: leaves and nested (nullable) tuples
ElemTypes == {I32, OptionI32, OptTuple(<<I32, OptionI32>>)}
FieldTypes == ElemTypes \cup {Tuple(<<I32, OptionI32>>), Tuple(<<OptTuple(<<I32, I32>>), I32>>)}

\* rows for T: the cells consumed before it are NULL, its own cells are any,
\* and a cell that is not NULL follows
RowsFor(T) ==
    {[s |-> s, cells |-> [i \in 1..s |-> "NULL"] \o body \o <<"1">>] :
        s \in {0, MaxStart}, body \in [1..Width(T) -> Cells]}

\* what the builder may hold when a rendering method is entered
Out0s == {<<>>, <<Sql("INSERT INTO t ")>>}

\* the fragments, insert values, changes and plain values tuples are made of
Frags == {Frag("a"), Frag("b"), FailFrag("c"), TupleFrag(<<Frag("a"), Frag("b")>>)}

InsertElems ==
    {Expression(c, Frag("1")) : c \in {"a", "b", BadName}}
        \cup {Default(c) : c \in {"a", "b"}}
        \cup {Expression("c", FailFrag("2")), Expression("c", TupleFrag(<<Frag("1"), Frag("2")>>))}

Changes ==
    {Change(n, s) : n \in BOOLEAN, s \in {"a = 1", "b = 2"}}
        \cup {FailChange("c = 3"),
              TupleChange(<<Change(TRUE, "a = 1"), Change(TRUE, "b = 2")>>),
              TupleChange(<<Change(TRUE, "a = 1"), Change(FALSE, "b = 2")>>),
              TupleChange(<<TupleChange(<<Change(TRUE, "a = 1")>>), Change(FALSE, "b = 2")>>)}

Values == {"u", "v", "w"}


\* the values of an element type, and the cells their encodings lay out
\* (the element's ToSql, the inverse of its decode)
RECURSIVE ValuesOf(_), TupleValues(_)
TupleValues(T) ==
    IF T = <<>> THEN {<<>>}
    ELSE {<<v>> \o rest : v \in ValuesOf(Head(T)), rest \in TupleValues(Tail(T))}

ValuesOf(ty) ==
    CASE ty.k = "int"      -> {IntVal(1), IntVal(2)}
      [] ty.k = "optint"   -> {NoneVal, SomeVal(IntVal(1)), SomeVal(IntVal(2))}
      [] ty.k = "tuple"    -> {TupleVal(es) : es \in TupleValues(ty.elems)}
      [] ty.k = "opttuple" -> {NoneVal} \cup {SomeVal(TupleVal(es)) : es \in TupleValues(ty.elems)}

RECURSIVE Encode(_, _)
Encode(ty, v) ==
    CASE v.t = "int"   -> IF v.n = 1 THEN <<"1">> ELSE <<"2">>
      [] v.t = "none"  -> [i \in 1..Len(Leaves(ty)) |-> "NULL"]
      [] v.t = "some"  -> IF ty.k = "optint" THEN Encode(I32, v.x)
                          ELSE Encode(Tuple(ty.elems), v.x)
      [] v.t = "tuple" -> Concat([i \in 1..Len(ty.elems) |-> Encode(ty.elems[i], v.es[i])])

\* SQL types, metadata lookups and what the metadata vector may hold
SqlTypes == {SqlTy("Integer"), SqlTy("Text"), TupleTy(<<SqlTy("Integer"), SqlTy("Text")>>)}
Lookups == {"lookup1", "lookup2"}
Vec0s == {<<>>, <<Metadata("Bool", "lookup1")>>}

\* the build tiers
Tiers == {"standard", "large", "huge"}

\* the calls that run side by side
ThreadInputs ==
    {Thread(kind, <<I32, OptionI32>>, r.cells, r.s, <<>>) :
        kind \in {"Tuple::build_from_row", "Option::build_from_row"},
        r \in RowsFor(<<I32, OptionI32>>)}
    \cup {Thread("QueryFragment::walk_ast", t, <<>>, 0, o) :
            t \in {<<Frag("a"), Frag("b")>>, <<Frag("a"), FailFrag("c"), Frag("b")>>},
            o \in Out0s}

\* elements with a query id, and the smaller set pairs of tuples are made of
QueryIdElems ==
    {QElem(ty, v) : ty \in {"A", "B", "D"}, v \in {1, 2}}
        \cup {TupleQ(<<QElem("A", 1), QElem("B", 1)>>), TupleQ(<<QElem("A", 1), QElem("D", 1)>>)}
PairElems == {QElem("A", 1), QElem("A", 2), QElem("B", 1)}

\* child records
Children ==
    {Child(fk, col) : fk \in {NoneVal, SomeVal(IntVal(1)), SomeVal(IntVal(2))},
                      col \in {"user_id", "post_id"}}

(***************************************************************************)
(* The state machine.                                                      *)
(***************************************************************************)
Init ==
    /\ op = "idle"
    /\ self = <<>>
    /\ arg = Unit
    /\ row = <<>>
    /\ start = 0
    /\ cursor = 0
    /\ out0 = <<>>
    /\ out = <<>>
    /\ ret = Ok(Unit)
    /\ calls = <<>>
    /\ threads = <<>>

\* <(T..) as FromSqlRow<(ST..), DB>>::build_from_row(row)
CallTupleBuildFromRow ==
    /\ op = "idle"
    /\ \E T \in SeqsUpTo(ElemTypes, MaxArity) : \E r \in RowsFor(T) :
        LET d == Tuple_build_from_row(T, r.cells, r.s, <<>>, <<>>)
        IN  /\ op' = "Tuple::build_from_row"
            /\ self' = T
            /\ row' = r.cells
            /\ start' = r.s
            /\ cursor' = d.pos
            /\ ret' = d.ret
            /\ calls' = d.calls
    /\ UNCHANGED <<threads, arg, out0, out>>

\* <Option<(T..)> as FromSqlRow<Nullable<(ST..)>, DB>>::build_from_row(row)
CallOptionBuildFromRow ==
    /\ op = "idle"
    /\ \E T \in SeqsUpTo(ElemTypes, MaxArity) : \E r \in RowsFor(T) :
        LET d == Option_build_from_row(T, r.cells, r.s, <<>>, <<>>)
        IN  /\ op' = "Option::build_from_row"
            /\ self' = T
            /\ row' = r.cells
            /\ start' = r.s
            /\ cursor' = d.pos
            /\ ret' = d.ret
            /\ calls' = d.calls
    /\ UNCHANGED <<threads, arg, out0, out>>

\* <(T..)>::fields_needed() and <Option<(T..)>>::fields_needed()
CallTupleFieldsNeeded ==
    /\ op = "idle"
    /\ \E T \in SeqsUpTo(FieldTypes, MaxArity) :
        /\ op' = "Tuple::fields_needed"
        /\ self' = T
        /\ ret' = Ok(IntVal(Tuple_fields_needed(T)))
    /\ UNCHANGED <<threads, arg, row, start, cursor, out0, out, calls>>

CallOptionFieldsNeeded ==
    /\ op = "idle"
    /\ \E T \in SeqsUpTo(FieldTypes, MaxArity) :
        /\ op' = "Option::fields_needed"
        /\ self' = T
        /\ ret' = Ok(IntVal(Option_fields_needed(T)))
    /\ UNCHANGED <<threads, arg, row, start, cursor, out0, out, calls>>

\* QueryFragment::walk_ast(&self, out)
CallQueryFragmentWalkAst ==
    /\ op = "idle"
    /\ \E t \in SeqsUpTo(Frags, MaxArity), o \in Out0s :
        LET w == QueryFragment_walk_ast(t, o)
        IN  /\ op' = "QueryFragment::walk_ast"
            /\ self' = t
            /\ out0' = o
            /\ out' = w.out
            /\ ret' = w.ret
    /\ UNCHANGED <<threads, arg, row, start, cursor, calls>>

\* InsertValues<DB>::column_names(&self, out), DB: SupportsDefaultKeyword
CallInsertValuesColumnNames ==
    /\ op = "idle"
    /\ \E t \in SeqsUpTo(InsertElems, MaxArity), o \in Out0s :
        LET w == InsertValues_column_names(t, o)
        IN  /\ op' = "InsertValues::column_names"
            /\ self' = t
            /\ out0' = o
            /\ out' = w.out
            /\ ret' = w.ret
    /\ UNCHANGED <<threads, arg, row, start, cursor, calls>>

\* InsertValues<DB>::walk_ast(&self, out), DB: SupportsDefaultKeyword
CallInsertValuesWalkAst ==
    /\ op = "idle"
    /\ \E t \in SeqsUpTo(InsertElems, MaxArity), o \in Out0s :
        LET w == InsertValues_walk_ast(t, o)
        IN  /\ op' = "InsertValues::walk_ast"
            /\ self' = t
            /\ out0' = o
            /\ out' = w.out
            /\ ret' = w.ret
    /\ UNCHANGED <<threads, arg, row, start, cursor, calls>>

\* InsertValues<Sqlite>::column_names(&self, out)
CallSqliteColumnNames ==
    /\ op = "idle"
    /\ \E t \in SeqsUpTo(InsertElems, MaxArity), o \in Out0s :
        LET w == Sqlite_column_names(t, o)
        IN  /\ op' = "Sqlite::column_names"
            /\ self' = t
            /\ out0' = o
            /\ out' = w.out
            /\ ret' = w.ret
    /\ UNCHANGED <<threads, arg, row, start, cursor, calls>>

\* InsertValues<Sqlite>::walk_ast(&self, out)
CallSqliteWalkAst ==
    /\ op = "idle"
    /\ \E t \in SeqsUpTo(InsertElems, MaxArity), o \in Out0s :
        LET w == Sqlite_walk_ast(t, o)
        IN  /\ op' = "Sqlite::walk_ast"
            /\ self' = t
            /\ out0' = o
            /\ out' = w.out
            /\ ret' = w.ret
    /\ UNCHANGED <<threads, arg, row, start, cursor, calls>>

\* Changeset::is_noop(&self)
CallChangesetIsNoop ==
    /\ op = "idle"
    /\ \E t \in SeqsUpTo(Changes, MaxArity) :
        /\ op' = "Changeset::is_noop"
        /\ self' = t
        /\ ret' = Ok(Changeset_is_noop(t))
    /\ UNCHANGED <<threads, arg, row, start, cursor, out0, out, calls>>

\* Changeset::walk_ast(&self, out)
CallChangesetWalkAst ==
    /\ op = "idle"
    /\ \E t \in SeqsUpTo(Changes, MaxArity), o \in Out0s :
        LET w == Changeset_walk_ast(t, o)
        IN  /\ op' = "Changeset::walk_ast"
            /\ self' = t
            /\ out0' = o
            /\ out' = w.out
            /\ ret' = w.ret
    /\ UNCHANGED <<threads, arg, row, start, cursor, calls>>

\* TupleAppend::tuple_append(self, next)
CallTupleAppend ==
    /\ op = "idle"
    /\ \E t \in SeqsUpTo(Values, MaxArity), next \in Values :
        /\ op' = "tuple_append"
        /\ self' = t
        /\ arg' = next
        /\ ret' = Ok(tuple_append(t, next))
    /\ UNCHANGED <<threads, row, start, cursor, out0, out, calls>>

\* <(T..) as QueryId>::has_static_query_id()
CallHasStaticQueryId ==
    /\ op = "idle"
    /\ \E t \in SeqsUpTo(QueryIdElems, MaxArity) :
        /\ op' = "QueryId::has_static_query_id"
        /\ self' = t
        /\ ret' = Ok(Tuple_has_static_query_id(t))
    /\ UNCHANGED <<threads, arg, row, start, cursor, out0, out, calls>>

\* <(T..) as QueryId>::QueryId, taken for two tuples
CallQueryId ==
    /\ op = "idle"
    /\ \E t \in SeqsUpTo(PairElems, MaxArity), u \in SeqsUpTo(PairElems, MaxArity) :
        /\ op' = "QueryId::QueryId"
        /\ self' = t
        /\ arg' = u
        /\ ret' = Ok(<<Tuple_QueryId(t), Tuple_QueryId(u)>>)
    /\ UNCHANGED <<threads, row, start, cursor, out0, out, calls>>

\* BelongsTo::foreign_key(&self)
CallForeignKey ==
    /\ op = "idle"
    /\ \E t \in SeqsUpTo(Children, MaxArity) :
        /\ op' = "BelongsTo::foreign_key"
        /\ self' = t
        /\ ret' = Ok(Tuple_foreign_key(t))
    /\ UNCHANGED <<threads, arg, row, start, cursor, out0, out, calls>>

\* BelongsTo::foreign_key_column()
CallForeignKeyColumn ==
    /\ op = "idle"
    /\ \E t \in SeqsUpTo(Children, MaxArity) :
        /\ op' = "BelongsTo::foreign_key_column"
        /\ self' = t
        /\ ret' = Ok(Tuple_foreign_key_column(t))
    /\ UNCHANGED <<threads, arg, row, start, cursor, out0, out, calls>>

\* <(T..) as FromSqlRow<(ST..), DB>>::build_from_row(row), on the row that
\* lays out the encodings of a tuple value's elements in positional order
CallTupleBuildFromEncodedRow ==
    /\ op = "idle"
    /\ \E T \in SeqsUpTo(ElemTypes, MaxArity), s \in {0, MaxStart} :
       \E v \in ValuesOf(Tuple(T)) :
        LET cells == [i \in 1..s |-> "NULL"] \o Encode(Tuple(T), v) \o <<"1">>
            d == Tuple_build_from_row(T, cells, s, <<>>, <<>>)
        IN  /\ op' = "Tuple::build_from_row(encoded)"
            /\ self' = T
            /\ arg' = v
            /\ row' = cells
            /\ start' = s
            /\ cursor' = d.pos
            /\ ret' = d.ret
            /\ calls' = d.calls
    /\ UNCHANGED <<threads, out0, out>>

\* <DB as HasSqlType<(T..)>>::metadata(lookup)
CallMetadata ==
    /\ op = "idle"
    /\ \E T \in SeqsUpTo(SqlTypes, MaxArity), lookup \in Lookups :
        /\ op' = "HasSqlType::metadata"
        /\ self' = T
        /\ arg' = lookup
        /\ ret' = Tuple_metadata(T, lookup)
    /\ UNCHANGED <<threads, row, start, cursor, out0, out, calls>>

\* <DB as HasSqlType<(T..)>>::row_metadata(out, lookup)
CallRowMetadata ==
    /\ op = "idle"
    /\ \E T \in SeqsUpTo(SqlTypes, MaxArity), lookup \in Lookups, o \in Vec0s :
        /\ op' = "HasSqlType::row_metadata"
        /\ self' = T
        /\ arg' = lookup
        /\ out0' = o
        /\ out' = Tuple_row_metadata(T, o, lookup)
        /\ ret' = Ok(Unit)
    /\ UNCHANGED <<threads, row, start, cursor, calls>>

\* a crate built at a tier uses a capability of a tuple of some arity
CallCompileUse ==
    /\ op = "idle"
    /\ \E tier \in Tiers, n \in 1..MaxUsedArity :
        /\ op' = "compile"
        /\ arg' = [tier |-> tier, arity |-> n]
        /\ ret' = IF n \in ImplArities(Features(tier)) THEN Ok(Unit) ELSE CompileError
    /\ UNCHANGED <<threads, self, row, start, cursor, out0, out, calls>>

\* t.tuple_append(next).walk_ast(out): the tuple one arity up is rendered
CallAppendWalkAst ==
    /\ op = "idle"
    /\ \E t \in SeqsUpTo(Frags, MaxArity), next \in Frags, o \in Out0s :
        LET w == QueryFragment_walk_ast(tuple_append(t, next), o)
        IN  /\ op' = "tuple_append.walk_ast"
            /\ self' = t
            /\ arg' = next
            /\ out0' = o
            /\ out' = w.out
            /\ ret' = w.ret
    /\ UNCHANGED <<threads, row, start, cursor, calls>>

\* the call has returned and the caller drops the tuple, row and builder
Return ==
    /\ op # "idle"
    /\ op' = "idle"
    /\ self' = <<>>
    /\ arg' = Unit
    /\ row' = <<>>
    /\ start' = 0
    /\ cursor' = 0
    /\ out0' = <<>>
    /\ out' = <<>>
    /\ ret' = Ok(Unit)
    /\ calls' = <<>>
    /\ threads' = <<>>

Next ==
    \/ CallTupleBuildFromRow
    \/ CallOptionBuildFromRow
    \/ CallTupleFieldsNeeded
    \/ CallOptionFieldsNeeded
    \/ CallQueryFragmentWalkAst
    \/ CallInsertValuesColumnNames
    \/ CallInsertValuesWalkAst
    \/ CallSqliteColumnNames
    \/ CallSqliteWalkAst
    \/ CallChangesetIsNoop
    \/ CallChangesetWalkAst
    \/ CallTupleAppend
    \/ CallHasStaticQueryId
    \/ CallQueryId
    \/ CallForeignKey
    \/ CallForeignKeyColumn
    \/ CallTupleBuildFromEncodedRow
    \/ CallMetadata
    \/ CallRowMetadata
    \/ CallCompileUse
    \/ CallAppendWalkAst
    \/ Return

Spec == Init /\ [][Next]_vars

(***************************************************************************)
(* Two callers, each with a call of its own, stepping in any order.        *)
(***************************************************************************)
InitThreads ==
    /\ op = "idle"
    /\ self = <<>>
    /\ arg = Unit
    /\ row = <<>>
    /\ start = 0
    /\ cursor = 0
    /\ out0 = <<>>
    /\ out = <<>>
    /\ ret = Ok(Unit)
    /\ calls = <<>>
    /\ threads \in [1..2 -> ThreadInputs]

StepNullCheck(p) ==
    /\ threads[p].pc = "check"
    /\ threads' = StepThread(threads, p)
    /\ UNCHANGED <<op, self, arg, row, start, cursor, out0, out, ret, calls>>

StepDecodeElem(p) ==
    /\ threads[p].pc = "elems"
    /\ threads[p].kind # "QueryFragment::walk_ast"
    /\ threads' = StepThread(threads, p)
    /\ UNCHANGED <<op, self, arg, row, start, cursor, out0, out, ret, calls>>

StepRenderElem(p) ==
    /\ threads[p].pc = "elems"
    /\ threads[p].kind = "QueryFragment::walk_ast"
    /\ threads' = StepThread(threads, p)
    /\ UNCHANGED <<op, self, arg, row, start, cursor, out0, out, ret, calls>>

NextThreads ==
    \/ \E p \in 1..2 : StepNullCheck(p)
    \/ \E p \in 1..2 : StepDecodeElem(p)
    \/ \E p \in 1..2 : StepRenderElem(p)

SpecThreads == InitThreads /\ [][NextThreads]_vars

(***************************************************************************)
(* Properties.                                                             *)
(***************************************************************************)
\* the row positions start+1 .. start+Width(self) of the group are all NULL
GroupAllNull == \A i \in (start + 1)..(start + Width(self)) : row[i] = "NULL"

\* where element i (1-based) of self starts in the row
Offset(i) == start + Width(SubSeq(self, 1, i - 1))

\* element i's own decode, at the position where the element starts
ElemDecode(i) == build_from_row(self[i], row, Offset(i), <<>>, <<i - 1>>)

\* the calls to the outer tuple's own elements
ElemCalls == SelectSeq(calls, LAMBDA p : Len(p) = 1)

\* C1: Option<tuple> decoded where the next fields_needed positions are all
\* NULL returns None, moves the cursor by exactly fields_needed and calls no
\* element's build_from_row.
C1_AbsentGroup ==
    (op = "Option::build_from_row" /\ GroupAllNull)
        => /\ ret = Ok(NoneVal)
           /\ cursor = start + Width(self)
           /\ calls = <<>>

C1_Witness ==
    /\ op = "Option::build_from_row"
    /\ GroupAllNull
    /\ Len(self) >= 2
    /\ Width(self) > Len(self)
    /\ start > 0
    /\ row[start + Width(self) + 1] # "NULL"
    /\ ret = Ok(NoneVal)

\* C2: Option<tuple> decoded where some position of the group is not NULL is
\* never None; where every element's own decode yields a value the result is
\* Some of the tuple of those values, the elements having been decoded in the
\* order 0..N-1, each exactly once; NULL positions inside such a group are
\* decoded by the elements they belong to.
C2_PresentGroup ==
    (op = "Option::build_from_row" /\ ~GroupAllNull)
        => /\ ret # Ok(NoneVal)
           /\ (\A i \in 1..Len(self) : ElemDecode(i).ret.ok)
                => /\ ret = Ok(SomeVal(TupleVal(
                              [i \in 1..Len(self) |-> ElemDecode(i).ret.val])))
                   /\ ElemCalls = [i \in 1..Len(self) |-> <<i - 1>>]
                   /\ cursor = start + Width(self)

C2_Witness ==
    /\ op = "Option::build_from_row"
    /\ ~GroupAllNull
    /\ Len(self) >= 2
    /\ \E i \in (start + 1)..(start + Width(self)) : row[i] = "NULL"
    /\ \E i \in 1..Len(self) : ElemDecode(i).ret = Ok(NoneVal)
    /\ ret.ok
    /\ ret.val.t = "some"

\* C3: fields_needed of a tuple is the sum of its elements' fields_needed,
\* nested tuples counted by their own sum, and fields_needed of Option<tuple>
\* is the same number.
C3_FieldsNeededIsSum ==
    /\ op = "Tuple::fields_needed"
        => /\ ret = Ok(IntVal(SeqSum([i \in 1..Len(self) |-> fields_needed(self[i])])))
           /\ ret.val.n = Width(self)
    /\ op = "Option::fields_needed"
        => /\ ret = Ok(IntVal(SeqSum([i \in 1..Len(self) |-> fields_needed(self[i])])))
           /\ ret.val.n = Tuple_fields_needed(self)

C3_Witness ==
    /\ op = "Tuple::fields_needed"
    /\ Len(self) >= 2
    /\ \E i \in 1..Len(self) : self[i].k = "tuple" /\ fields_needed(self[i]) = 3
    /\ \E i \in 1..Len(self) : self[i].k = "int"
    /\ ret.val.n > Len(self)

Sep == Sql(", ")

\* the token sequences ss joined by one separator between neighbours
Join(ss) ==
    IF ss = <<>> THEN <<>>
    ELSE Concat([i \in 1..(2 * Len(ss) - 1) |->
                    IF i % 2 = 1 THEN ss[(i + 1) \div 2] ELSE <<Sep>>])

\* what the method pushed: out without what the builder held before
Pushed == SubSeq(out, Len(out0) + 1, Len(out))

\* the number of separators in a token sequence
SepCount(ts) == Cardinality({i \in 1..Len(ts) : ts[i] = Sep})

\* C4: a tuple fragment that renders successfully has pushed its elements'
\* own renderings in positional order with one ", " between neighbours and
\* none before the first or after the last: n - 1 separators for n elements.
C4_PlainRendering ==
    (op = "QueryFragment::walk_ast" /\ ret.ok)
        => /\ out = out0 \o Join([i \in 1..Len(self) |-> walk_ast(self[i], <<>>).out])
           /\ (\A i \in 1..Len(self) : self[i].k = "frag")
                => SepCount(Pushed) = Len(self) - 1

C4_Witness ==
    /\ op = "QueryFragment::walk_ast"
    /\ ret.ok
    /\ Len(self) >= 3
    /\ out0 # <<>>
    /\ self[1] # self[2]
    /\ \E i \in 1..Len(self) : self[i].k = "tuple"
    /\ Pushed[1] # Sep
    /\ Pushed[Len(Pushed)] # Sep

\* the value position of one column insert value under the standard policy
StdValue(e) == IF e.k = "Default" THEN <<Sql("DEFAULT")>> ELSE walk_ast(e.value, <<>>).out

\* C5: under the standard policy column_names pushes all N identifiers in
\* positional order and walk_ast pushes N value positions in the same order
\* between "(" and ")", position i being DEFAULT iff element i is
\* default-marked and element i's expression otherwise.
C5_StandardInsert ==
    /\ (op = "InsertValues::column_names" /\ ret.ok)
        => out = out0 \o Join([i \in 1..Len(self) |-> <<Ident(self[i].col)>>])
    /\ (op = "InsertValues::walk_ast" /\ ret.ok)
        => out = out0 \o <<Sql("(")>>
                      \o Join([i \in 1..Len(self) |-> StdValue(self[i])])
                      \o <<Sql(")")>>

C5_Witness ==
    /\ op = "InsertValues::walk_ast"
    /\ ret.ok
    /\ Len(self) = 3
    /\ self[1].k = "Expression"
    /\ self[2].k = "Default"
    /\ self[3].k = "Expression"
    /\ Pushed = <<Sql("("), Sql("1"), Sep, Sql("DEFAULT"), Sep, Sql("1"), Sql(")")>>

\* the elements that are not default-marked, in positional order
NotDefault(t) == SelectSeq(t, LAMBDA e : e.k = "Expression")

\* C6: under the restricted policy column_names and walk_ast push the same
\* positions, the elements that are not default-marked in positional order;
\* a default-marked element adds nothing to either list and DEFAULT is never
\* pushed.
C6_RestrictedInsert ==
    LET kept == NotDefault(self)
    IN  /\ (op = "Sqlite::column_names" /\ ret.ok)
            => out = out0 \o Join([i \in 1..Len(kept) |-> <<Ident(kept[i].col)>>])
        /\ (op = "Sqlite::walk_ast" /\ ret.ok)
            => out = out0 \o <<Sql("(")>>
                          \o Join([i \in 1..Len(kept) |-> walk_ast(kept[i].value, <<>>).out])
                          \o <<Sql(")")>>
        /\ op \in {"Sqlite::column_names", "Sqlite::walk_ast"}
            => \A i \in 1..Len(Pushed) : Pushed[i] # Sql("DEFAULT")

C6_Witness ==
    /\ op = "Sqlite::column_names"
    /\ ret.ok
    /\ Len(self) = 3
    /\ self[1].k = "Expression"
    /\ self[2].k = "Default"
    /\ self[3].k = "Expression"
    /\ self[1].col # self[3].col
    /\ Pushed = <<Ident(self[1].col), Sep, Ident(self[3].col)>>

\* the items of a list: what was pushed, without the parentheses of walk_ast
Items == IF op = "Sqlite::walk_ast" THEN SubSeq(Pushed, 2, Len(Pushed) - 1) ELSE Pushed

\* the separators the kept elements' own expressions contain
InnerSeps(t) ==
    SeqSum([i \in 1..Len(t) |->
        IF t[i].k = "Expression" THEN SepCount(walk_ast(t[i].value, <<>>).out) ELSE 0])

\* C7: under the restricted policy each list of k >= 1 emitted items holds
\* k - 1 separators of its own, every one strictly between two items: none
\* first, none last, no two in a row, also when element 0 or a leading run of
\* elements is default-marked; with no item emitted there is no separator.
C7_RestrictedSeparators ==
    (op \in {"Sqlite::column_names", "Sqlite::walk_ast"} /\ ret.ok)
        => LET k == Len(NotDefault(self))
               inner == IF op = "Sqlite::walk_ast" THEN InnerSeps(self) ELSE 0
           IN  /\ k = 0 => Items = <<>>
               /\ k >= 1 =>
                    /\ SepCount(Items) = (k - 1) + inner
                    /\ Items[1] # Sep
                    /\ Items[Len(Items)] # Sep
                    /\ \A i \in 1..(Len(Items) - 1) : ~(Items[i] = Sep /\ Items[i + 1] = Sep)

C7_Witness ==
    /\ op = "Sqlite::walk_ast"
    /\ ret.ok
    /\ Len(self) = 3
    /\ self[1].k = "Default"
    /\ self[2].k = "Expression"
    /\ self[3].k = "Expression"
    /\ SepCount(Items) = 1
    /\ Items[1] # Sep

\* C8: is_noop of a tuple changeset is true iff is_noop of every element is.
C8_IsNoopIffAll ==
    op = "Changeset::is_noop"
        => ret = Ok(\A i \in 1..Len(self) : is_noop(self[i]))

C8_Witness ==
    /\ op = "Changeset::is_noop"
    /\ Len(self) >= 2
    /\ \E i \in 1..Len(self) : is_noop(self[i])
    /\ \E i \in 1..Len(self) : ~is_noop(self[i])
    /\ ret = Ok(FALSE)

\* the elements that are not no-ops, in positional order
Changing(t) == SelectSeq(t, LAMBDA e : ~is_noop(e))

\* C9: a tuple changeset that renders successfully has pushed the renderings
\* of exactly its elements that are not no-ops, in positional order, with a
\* ", " before each but the first rendered one: k of them give k assignments
\* and max(k - 1, 0) separators, and nothing is pushed when all are no-ops.
C9_ChangesetRendering ==
    (op = "Changeset::walk_ast" /\ ret.ok)
        => LET ch == Changing(self)
           IN  /\ out = out0 \o Join([i \in 1..Len(ch) |-> change_walk_ast(ch[i], <<>>).out])
               /\ (\A i \in 1..Len(self) : self[i].k = "change")
                    => /\ Len(Pushed) - SepCount(Pushed) = Len(ch)
                       /\ SepCount(Pushed) = IF Len(ch) = 0 THEN 0 ELSE Len(ch) - 1
               /\ (\A i \in 1..Len(self) : is_noop(self[i])) => out = out0

C9_Witness ==
    /\ op = "Changeset::walk_ast"
    /\ ret.ok
    /\ out0 # <<>>
    /\ Len(self) = 3
    /\ \A i \in 1..3 : self[i].k = "change"
    /\ <<self[1].noop, self[2].noop, self[3].noop>> = <<FALSE, TRUE, FALSE>>
    /\ Pushed = <<Sql(self[1].s), Sep, Sql(self[3].s)>>

\* C10: tuple_append of V to a tuple of arity N returns a tuple of arity N + 1
\* whose first N elements are the tuple's, in order, and whose last is V.
C10_TupleAppend ==
    op = "tuple_append"
        => /\ ret.ok
           /\ Len(ret.val) = Len(self) + 1
           /\ \A i \in 1..Len(self) : ret.val[i] = self[i]
           /\ ret.val[Len(self) + 1] = arg

C10_Witness ==
    /\ op = "tuple_append"
    /\ Len(self) >= 2
    /\ self[1] # self[2]
    /\ arg # self[1]
    /\ arg # self[Len(self)]
    /\ Len(ret.val) = Len(self) + 1

\* C11: has_static_query_id of a tuple is true iff it is true of every one
\* of its elements.
C11_StaticIffAll ==
    op = "QueryId::has_static_query_id"
        => ret = Ok(\A i \in 1..Len(self) : has_static_query_id(self[i]))

C11_Witness ==
    /\ op = "QueryId::has_static_query_id"
    /\ Len(self) >= 2
    /\ \E i \in 1..Len(self) : has_static_query_id(self[i])
    /\ \E i \in 1..Len(self) : ~has_static_query_id(self[i])
    /\ ret = Ok(FALSE)

\* the element types of a tuple, without the values bound in it
RECURSIVE Structure(_)
Structure(t) ==
    [i \in 1..Len(t) |->
        IF t[i].k = "tuple" THEN Token("tuple", Structure(t[i].elems))
        ELSE Token(t[i].ty, <<>>)]

\* C12: the identity token of a tuple is the ordered composite of its
\* elements' tokens: two tuples of the same element types have the same token
\* whatever values are bound in them, and two tuples have the same token only
\* if they have the same arity and the same element token at every position.
C12_TokenIsStructure ==
    op = "QueryId::QueryId"
        => /\ ret.val[1] = Token("tuple", [i \in 1..Len(self) |-> QueryId(self[i])])
           /\ Structure(self) = Structure(arg) => ret.val[1] = ret.val[2]
           /\ ret.val[1] = ret.val[2]
                => /\ Len(self) = Len(arg)
                   /\ \A i \in 1..Len(self) : QueryId(self[i]) = QueryId(arg[i])

C12_Witness ==
    /\ op = "QueryId::QueryId"
    /\ Len(self) >= 2
    /\ self # arg
    /\ Structure(self) = Structure(arg)
    /\ self[1].ty # self[2].ty
    /\ ret.val[1] = ret.val[2]

\* C13: foreign_key of a tuple is its first element's foreign_key and
\* foreign_key_column is its first element's foreign_key_column, whatever the
\* other elements are.
C13_BelongsToFirst ==
    /\ op = "BelongsTo::foreign_key" => ret = Ok(self[1].fk)
    /\ op = "BelongsTo::foreign_key_column" => ret = Ok(ColumnVal(self[1].col))

C13_Witness ==
    /\ op = "BelongsTo::foreign_key"
    /\ Len(self) >= 3
    /\ self[1].fk = SomeVal(IntVal(1))
    /\ self[2].fk # self[1].fk
    /\ self[Len(self)].fk # self[1].fk
    /\ self[Len(self)].col # self[1].col
    /\ ret = Ok(SomeVal(IntVal(1)))

\* element i's decode is the first that fails
FailsAt(i) ==
    /\ \A j \in 1..(i - 1) : ElemDecode(j).ret.ok
    /\ ~ElemDecode(i).ret.ok

\* C14: when element i's decode fails in a plain tuple decode or in the
\* present branch of Option<tuple>, the decode returns that element's error as
\* it is and no tuple, elements i+1..N-1 are not decoded, and elements 0..i
\* have been decoded once each, in order.
C14_DecodeErrorPropagates ==
    (\/ op = "Tuple::build_from_row"
     \/ op = "Option::build_from_row" /\ ~GroupAllNull)
        => \A i \in 1..Len(self) :
            FailsAt(i)
                => /\ ret = ElemDecode(i).ret
                   /\ ~ret.ok
                   /\ ret.val = Unit
                   /\ ElemCalls = [j \in 1..i |-> <<j - 1>>]
                   /\ \A a, b \in 1..Len(calls) : a # b => calls[a] # calls[b]

C14_Witness ==
    /\ op = "Tuple::build_from_row"
    /\ Len(self) = 3
    /\ FailsAt(2)
    /\ ret = Err("InvalidValue")
    /\ self[3] = I32
    /\ row[Offset(3) + 1] = "NULL"
    /\ ElemCalls = <<<<0>>, <<1>>>>

\* C17: a tuple decoded from the row that lays out the encodings of a tuple
\* value's elements in positional order is that tuple value, for every arity
\* from 1 to the largest.
C17_RoundTrip ==
    op = "Tuple::build_from_row(encoded)"
        => /\ ret = Ok(arg)
           /\ cursor = start + Len(Encode(Tuple(self), arg))

C17_Witness ==
    /\ op = "Tuple::build_from_row(encoded)"
    /\ Len(self) = MaxArity
    /\ self[1] = I32
    /\ self[2] = I32
    /\ arg.es[1] # arg.es[2]
    /\ ret = Ok(arg)

\* C18: a plain tuple is decoded without the group NULL check: where all its
\* row positions are NULL the result is still not the absent group, the
\* elements' own decodes are called in positional order from element 0 on,
\* none twice, and all of them, once each, when none of them fails.
C18_PlainNoNullCheck ==
    (op = "Tuple::build_from_row" /\ GroupAllNull)
        => /\ ret # Ok(NoneVal)
           /\ ElemCalls # <<>>
           /\ \A j \in 1..Len(ElemCalls) : ElemCalls[j] = <<j - 1>>
           /\ (\A i \in 1..Len(self) : ElemDecode(i).ret.ok)
                => /\ ElemCalls = [i \in 1..Len(self) |-> <<i - 1>>]
                   /\ ret = Ok(TupleVal([i \in 1..Len(self) |-> ElemDecode(i).ret.val]))

C18_Witness ==
    /\ op = "Tuple::build_from_row"
    /\ GroupAllNull
    /\ Len(self) >= 2
    /\ self[1] = OptionI32
    /\ \E i \in 1..Len(self) : self[i].k = "opttuple"
    /\ ret.ok
    /\ ret.val.t = "tuple"
    /\ ret.val.es[1] = NoneVal
    /\ Len(ElemCalls) = Len(self)

\* the methods that render into a builder
RenderOps ==
    {"QueryFragment::walk_ast", "InsertValues::column_names", "InsertValues::walk_ast",
     "Sqlite::column_names", "Sqlite::walk_ast", "Changeset::walk_ast"}

\* the collaborator calls the method makes for its elements, in order, each
\* with the result and the text it gives on an empty builder
RenderCalls ==
    CASE op = "QueryFragment::walk_ast" ->
            [i \in 1..Len(self) |-> walk_ast(self[i], <<>>)]
      [] op = "InsertValues::column_names" ->
            [i \in 1..Len(self) |-> push_identifier(<<>>, self[i].col)]
      [] op = "InsertValues::walk_ast" ->
            [i \in 1..Len(self) |->
                IF self[i].k = "Default" THEN Walked(Ok(Unit), <<Sql("DEFAULT")>>)
                ELSE walk_ast(self[i].value, <<>>)]
      [] op = "Sqlite::column_names" ->
            [i \in 1..Len(NotDefault(self)) |-> push_identifier(<<>>, NotDefault(self)[i].col)]
      [] op = "Sqlite::walk_ast" ->
            [i \in 1..Len(NotDefault(self)) |-> walk_ast(NotDefault(self)[i].value, <<>>)]
      [] op = "Changeset::walk_ast" ->
            [i \in 1..Len(Changing(self)) |-> change_walk_ast(Changing(self)[i], <<>>)]

\* what the method pushes before its first element
Opening == IF op \in {"InsertValues::walk_ast", "Sqlite::walk_ast"} THEN <<Sql("(")>> ELSE <<>>

\* C15: when a collaborator call fails in a tuple rendering method, the
\* method returns that error as it is, and the builder holds what was pushed
\* up to the failure and nothing after it: no later element, no closing
\* parenthesis, no second attempt; the method returns Ok only if no call failed.
C15_RenderErrorPropagates ==
    op \in RenderOps
        => /\ ret.ok <=> \A i \in 1..Len(RenderCalls) : RenderCalls[i].ret.ok
           /\ \A f \in 1..Len(RenderCalls) :
                (/\ \A j \in 1..(f - 1) : RenderCalls[j].ret.ok
                 /\ ~RenderCalls[f].ret.ok)
                    => /\ ret = RenderCalls[f].ret
                       /\ out = out0 \o Opening \o Join([j \in 1..f |-> RenderCalls[j].out])

C15_Witness ==
    /\ op = "QueryFragment::walk_ast"
    /\ Len(self) = 3
    /\ self[1] = Frag("a")
    /\ self[2] = FailFrag("c")
    /\ self[3] = Frag("b")
    /\ out0 # <<>>
    /\ ret = Err("QueryBuilderError")
    /\ Pushed = <<Sql("a"), Sep, Sql("c")>>

\* C16: metadata of a tuple SQL type never returns a value, whatever the
\* arity and the lookup: it panics as unreachable; row_metadata of the same
\* type returns, having pushed every element's metadata in positional order.
C16_MetadataPanics ==
    /\ op = "HasSqlType::metadata"
        => ret = Panic("Tuples should never implement ToSql directly")
    /\ op = "HasSqlType::row_metadata"
        => /\ ret = Ok(Unit)
           /\ out = out0 \o Concat([i \in 1..Len(self) |-> row_metadata(self[i], <<>>, arg)])

C16_Witness ==
    /\ op = "HasSqlType::metadata"
    /\ Len(self) >= 2
    /\ self[1] = SqlTy("Integer")
    /\ arg = "lookup2"
    /\ ret = Panic("Tuples should never implement ToSql directly")

\* C19: the arities with implementations depend on the build tier alone and
\* are a range from 1 without gaps: 1..16 by default, 1..26 at the large tier,
\* 1..52 at the huge tier; a use of a larger arity is a compile error.
C19_ArityTiers ==
    op = "compile"
        => LET ceiling == CASE arg.tier = "standard" -> 16
                            [] arg.tier = "large"    -> 26
                            [] arg.tier = "huge"     -> 52
           IN  /\ arg.arity <= ceiling => ret = Ok(Unit)
               /\ arg.arity > ceiling => ret = CompileError

C19_Witness ==
    /\ op = "compile"
    /\ arg.tier = "large"
    /\ arg.arity = 27
    /\ ret = CompileError

\* a call run alone for n steps
RECURSIVE RunAlone(_, _)
RunAlone(th, n) == IF n = 0 \/ th.pc = "done" THEN th ELSE RunAlone(StepOf(th), n - 1)

\* the result and the cursor or builder the method leaves when called alone
AloneResult(th) ==
    CASE th.kind = "Tuple::build_from_row" ->
            LET d == Tuple_build_from_row(th.self, th.cells, th.start, <<>>, <<>>)
            IN  [ret |-> d.ret, cursor |-> d.pos, out |-> th.out0]
      [] th.kind = "Option::build_from_row" ->
            LET d == Option_build_from_row(th.self, th.cells, th.start, <<>>, <<>>)
            IN  [ret |-> d.ret, cursor |-> d.pos, out |-> th.out0]
      [] th.kind = "QueryFragment::walk_ast" ->
            LET w == QueryFragment_walk_ast(th.self, th.out0)
            IN  [ret |-> w.ret, cursor |-> th.start, out |-> w.out]

\* C20: two calls on their own tuples, rows and builders, their per-element
\* steps interleaved in any order: each call is at every moment where it
\* would be alone after as many steps of its own, so no step of the other has
\* written to its cursor or builder, and when it is done its result, cursor
\* and builder are those of the method called alone.
C20_NoSharedState ==
    \A p \in DOMAIN threads :
        LET th == threads[p]
        IN  /\ th = RunAlone(Thread(th.kind, th.self, th.cells, th.start, th.out0), th.steps)
            /\ th.pc = "done"
                => [ret |-> th.ret, cursor |-> th.cursor, out |-> th.out] = AloneResult(th)

C20_Witness ==
    /\ DOMAIN threads = 1..2
    /\ threads[1].kind = "Option::build_from_row"
    /\ threads[2].kind = "QueryFragment::walk_ast"
    /\ threads[1].pc = "elems"
    /\ threads[1].idx = 1
    /\ threads[1].cursor # threads[2].cursor
    /\ threads[2].pc = "done"
    /\ threads[2].steps = 2
    /\ threads[2].ret.ok

\* C21: behaviour at arity N is the arity-1 behaviour repeated: rendering
\* tuple_append(t, v) is rendering t, then ", ", then rendering v (when t
\* fails the walk ends with t's error and v is not reached), and rendering
\* the 1-tuple (e,) is rendering e alone, with the same result.
C21_ArityUniform ==
    /\ op = "tuple_append.walk_ast"
        => LET rt == QueryFragment_walk_ast(self, out0)
               rv == walk_ast(arg, rt.out \o <<Sep>>)
           IN  IF rt.ret.ok THEN out = rv.out /\ ret = rv.ret
               ELSE out = rt.out /\ ret = rt.ret
    /\ (op = "QueryFragment::walk_ast" /\ Len(self) = 1)
        => LET re == walk_ast(self[1], out0)
           IN  out = re.out /\ ret = re.ret

C21_Witness ==
    /\ op = "tuple_append.walk_ast"
    /\ Len(self) = MaxArity
    /\ ret.ok
    /\ arg.k = "tuple"
    /\ self[2].k = "tuple"
    /\ out0 # <<>>
    /\ SepCount(Pushed) = Len(self) + 2

\* C22: every element's successful decode moving the cursor by that
\* element's fields_needed, a successful decode of Option<tuple> leaves the
\* cursor exactly fields_needed past where it started, whether the group was
\* absent or present, so what is decoded next starts at the same position in
\* both branches; a successful decode of a plain tuple does the same.
C22_CursorAdvance ==
    /\ (op = "Option::build_from_row" /\ ret.ok)
        => /\ cursor = start + Option_fields_needed(self)
           /\ cursor = Option_build_from_row(self,
                          [i \in 1..Len(row) |-> IF i <= cursor THEN "NULL" ELSE row[i]],
                          start, <<>>, <<>>).pos
    /\ (op = "Tuple::build_from_row" /\ ret.ok)
        => cursor = start + Tuple_fields_needed(self)

C22_Witness ==
    /\ op = "Option::build_from_row"
    /\ ret.ok
    /\ ret.val.t = "some"
    /\ start > 0
    /\ Len(self) = MaxArity
    /\ Option_fields_needed(self) > Len(self)
    /\ \E i \in 1..Len(self) : self[i].k = "opttuple" /\ ret.val.x.es[i] = NoneVal
    /\ \E i \in 1..Len(self) : self[i].k = "opttuple" /\ ret.val.x.es[i] # NoneVal

\* C23: for a tuple of insert values none of which is default-marked the
\* standard and the restricted policy are one: column_names leaves the same
\* column list in the builder and walk_ast the same parenthesised value list,
\* with the same result, at every arity.
C23_PoliciesAgree ==
    (/\ op \in {"InsertValues::column_names", "InsertValues::walk_ast",
                "Sqlite::column_names", "Sqlite::walk_ast"}
     /\ \A i \in 1..Len(self) : self[i].k = "Expression")
        => /\ op = "InsertValues::column_names"
                => Walked(ret, out) = Sqlite_column_names(self, out0)
           /\ op = "Sqlite::column_names"
                => Walked(ret, out) = InsertValues_column_names(self, out0)
           /\ op = "InsertValues::walk_ast"
                => Walked(ret, out) = Sqlite_walk_ast(self, out0)
           /\ op = "Sqlite::walk_ast"
                => Walked(ret, out) = InsertValues_walk_ast(self, out0)

C23_Witness ==
    /\ op = "Sqlite::column_names"
    /\ Len(self) = MaxArity
    /\ \A i \in 1..Len(self) : self[i].k = "Expression"
    /\ self[1].col # self[2].col
    /\ ret.ok
    /\ out0 # <<>>
    /\ SepCount(Pushed) = Len(self) - 1

\* C24: walk_ast of insert values pushes "(" first under either policy, and
\* when it succeeds ")" last, with the value items and nothing else between
\* them; under the restricted policy a tuple whose elements are all
\* default-marked makes column_names push nothing and walk_ast push exactly
\* "(" ")" with no separator.
C24_Parenthesised ==
    /\ op \in {"InsertValues::walk_ast", "Sqlite::walk_ast"}
        => /\ Pushed # <<>>
           /\ Pushed[1] = Sql("(")
           /\ ret.ok
                => LET kept == NotDefault(self)
                       items == IF op = "Sqlite::walk_ast"
                                THEN [i \in 1..Len(kept) |-> walk_ast(kept[i].value, <<>>).out]
                                ELSE [i \in 1..Len(self) |-> StdValue(self[i])]
                   IN  /\ Len(Pushed) >= 2
                       /\ Pushed[Len(Pushed)] = Sql(")")
                       /\ SubSeq(Pushed, 2, Len(Pushed) - 1) = Join(items)
    /\ (/\ op \in {"Sqlite::column_names", "Sqlite::walk_ast"}
        /\ \A i \in 1..Len(self) : self[i].k = "Default")
        => /\ ret = Ok(Unit)
           /\ op = "Sqlite::column_names" => out = out0
           /\ op = "Sqlite::walk_ast" => out = out0 \o <<Sql("("), Sql(")")>>

C24_Witness ==
    /\ op = "Sqlite::walk_ast"
    /\ Len(self) = MaxArity
    /\ \A i \in 1..Len(self) : self[i].k = "Default"
    /\ self[1] # self[2]
    /\ out0 # <<>>
    /\ Pushed = <<Sql("("), Sql(")")>>

\* the leaf changes of a changeset element, inner tuples opened up, in order
RECURSIVE ChangeLeaves(_)
ChangeLeaves(e) ==
    IF e.k = "change" THEN <<e>>
    ELSE Concat([i \in 1..Len(e.elems) |-> ChangeLeaves(e.elems[i])])

\* the leaves of the whole tuple that change something
ChangingLeaves(t) ==
    SelectSeq(Concat([i \in 1..Len(t) |-> ChangeLeaves(t[i])]), LAMBDA l : ~l.noop)

\* C25: a tuple changeset whose elements may be tuple changesets themselves,
\* rendered successfully, has pushed exactly its leaves that are not no-ops,
\* in order, one ", " between neighbours: an inner tuple of no-ops only is
\* passed over like a single no-op element, and no separator comes first,
\* last or next to another one.
C25_NestedChangeset ==
    (op = "Changeset::walk_ast" /\ ret.ok)
        => LET ls == ChangingLeaves(self)
           IN  /\ Pushed = Join([i \in 1..Len(ls) |-> <<Sql(ls[i].s)>>])
               /\ Pushed # <<>> => Pushed[1] # Sep /\ Pushed[Len(Pushed)] # Sep
               /\ \A i \in 1..(Len(Pushed) - 1) : ~(Pushed[i] = Sep /\ Pushed[i + 1] = Sep)
               /\ SepCount(Pushed) = IF ls = <<>> THEN 0 ELSE Len(ls) - 1

C25_Witness ==
    /\ op = "Changeset::walk_ast"
    /\ ret.ok
    /\ Len(self) = 3
    /\ self[1].k = "tuple"
    /\ \E i \in 1..Len(self[1].elems) : self[1].elems[i].k = "tuple"
    /\ self[2].k = "tuple"
    /\ ChangingLeaves(<<self[2]>>) = <<>>
    /\ self[3].k = "change"
    /\ Pushed = <<Sql("b = 2"), Sep, Sql("a = 1")>>

====
